---- MODULE Spec2Model ----
(***************************************************************************)
(* Model of SAFE.py, the SAFE Foster Program dashboard script.             *)
(*                                                                         *)
(* One run of the script is one behaviour: load_data (lines 22-31), the    *)
(* branch of line 36, the preprocessing of lines 38-45, the seven metric   *)
(* derivations of lines 47-90 and the presentation of lines 92-177, or the *)
(* error branch of lines 178-179.  Data frames are sequences of rows, a    *)
(* row is a function from column names to cell values.                    *)
(***************************************************************************)
EXTENDS Integers, Sequences, FiniteSets, TLC

VARIABLES
    files,              \* the two input files on disk (never written)
    pc,                 \* position of the script
    df, geo_df,         \* lines 34: the loaded frames, or None
    errors,             \* st.error messages shown, in order
    done,               \* metric derivations already executed
    total_people, total_animals,
    animal_breakdown,
    care_duration, avg_days_our_care, min_days_our_care, max_days_our_care,
    foster_duration, avg_days_foster, min_days_foster, max_days_foster,
    spay_neuter,
    animal_yearly,
    zip_counts, map_df,
    rendered            \* the derived outputs were handed to the page

metrics == << total_people, total_animals, animal_breakdown,
              care_duration, avg_days_our_care, min_days_our_care, max_days_our_care,
              foster_duration, avg_days_foster, min_days_foster, max_days_foster,
              spay_neuter, animal_yearly, zip_counts, map_df >>

vars == << files, pc, df, geo_df, errors, done, metrics, rendered >>

-----------------------------------------------------------------------------
(* Bounds of the explored inputs.                                          *)

MaxRows == 2

MaxZones == 2

-----------------------------------------------------------------------------
(* Cell values.                                                            *)

\* A raw date cell of the workbook: a calendar date, an empty cell, or text
\* that pd.to_datetime cannot parse.
RawDate(y, m, d) == [kind |-> "date", y |-> y, m |-> m, d |-> d]
RawNull == [kind |-> "null", y |-> 0, m |-> 0, d |-> 0]
RawBad == [kind |-> "bad", y |-> 0, m |-> 0, d |-> 0]

\* A raw zip cell: an integer cell or a text cell.
ZInt(n) == [kind |-> "int", n |-> n, s |-> ""]
ZStr(s) == [kind |-> "str", n |-> 0, s |-> s]

\* A possibly missing number (NaN), and a possibly missing timestamp (NaT),
\* the timestamp counted in days since 1970-01-01.
NaN == [isna |-> TRUE, v |-> 0]
Num(x) == [isna |-> FALSE, v |-> x]
NaT == [isna |-> TRUE, v |-> 0]
Stamp(x) == [isna |-> FALSE, v |-> x]

\* A mean is kept exact, as the sum and the count it is the quotient of.
MeanNaN == [isna |-> TRUE, sum |-> 0, n |-> 1]
Mean(s, n) == [isna |-> FALSE, sum |-> s, n |-> n]

\* Python's None for a frame that was not loaded.
None == [none |-> TRUE, rows |-> << >>]
Frame(rows) == [none |-> FALSE, rows |-> rows]

Missing == [present |-> FALSE, rows |-> << >>]
File(rows) == [present |-> TRUE, rows |-> rows]

-----------------------------------------------------------------------------
(* Conversions.                                                            *)

Digits == << "0", "1", "2", "3", "4", "5", "6", "7", "8", "9" >>

\* str() of a non-negative integer.
RECURSIVE IntToStr(_)
IntToStr(n) ==
    IF n < 10 THEN Digits[n + 1]
    ELSE IntToStr(n \div 10) \o Digits[(n % 10) + 1]

\* Series.astype(str) on one cell.
AsStr(z) == IF z.kind = "int" THEN IntToStr(z.n) ELSE z.s

\* Days since 1970-01-01 of a proleptic Gregorian calendar date.
DaysFromCivil(y, m, d) ==
    LET yy == IF m <= 2 THEN y - 1 ELSE y
        era == yy \div 400
        yoe == yy - era * 400
        mp == IF m > 2 THEN m - 3 ELSE m + 9
        doy == (153 * mp + 2) \div 5 + d - 1
        doe == yoe * 365 + yoe \div 4 - yoe \div 100 + doy
    IN  era * 146097 + doe - 719468

\* The calendar year of a day number (Series.dt.year).
YearOfDays(z0) ==
    LET z == z0 + 719468
        era == z \div 146097
        doe == z - era * 146097
        yoe == (doe - doe \div 1460 + doe \div 36524 - doe \div 146096) \div 365
        doy == doe - (365 * yoe + yoe \div 4 - yoe \div 100)
        mp == (5 * doy + 2) \div 153
        m == IF mp < 10 THEN mp + 3 ELSE mp - 9
    IN  yoe + era * 400 + (IF m <= 2 THEN 1 ELSE 0)

\* pd.to_datetime on one cell that can be parsed.
to_datetime(c) ==
    IF c.kind = "null" THEN NaT ELSE Stamp(DaysFromCivil(c.y, c.m, c.d))

\* (a - b).dt.days on one pair of cells.
DaysBetween(a, b) == IF a.isna \/ b.isna THEN NaN ELSE Num(a.v - b.v)

-----------------------------------------------------------------------------
(* Frame helpers.                                                          *)

Range(s) == { s[i] : i \in 1..Len(s) }

Column(rows, c) == [ i \in 1..Len(rows) |-> rows[i][c] ]

\* Series.nunique(): the number of distinct values of a column.
nunique(rows, c) == Cardinality(Range(Column(rows, c)))

\* DataFrame.drop_duplicates(c): the first row of every value of c, in order.
RECURSIVE DropFrom(_, _, _)
DropFrom(rows, c, seen) ==
    IF rows = << >> THEN << >>
    ELSE IF Head(rows)[c] \in seen THEN DropFrom(Tail(rows), c, seen)
    ELSE << Head(rows) >> \o DropFrom(Tail(rows), c, seen \cup { Head(rows)[c] })

drop_duplicates(rows, c) == DropFrom(rows, c, {})

\* The rows of a group.
RowsWhere(rows, c, k) == SelectSeq(rows, LAMBDA r : r[c] = k)

\* groupby(c).size(): one count per value of c that occurs.
GroupSize(rows, c) ==
    [ k \in Range(Column(rows, c)) |-> Len(RowsWhere(rows, c, k)) ]

RECURSIVE SumSet(_, _)
SumSet(f, S) ==
    IF S = {} THEN 0
    ELSE LET x == CHOOSE y \in S : TRUE IN f[x] + SumSet(f, S \ { x })

\* The values of a column of numbers that are not NaN, as index set.
Valid(col) == { i \in DOMAIN col : ~ col[i].isna }

\* Series.min(), Series.max(), Series.mean(), all skipping NaN.
SeriesMin(col) ==
    IF Valid(col) = {} THEN NaN
    ELSE Num(CHOOSE x \in { col[i].v : i \in Valid(col) } :
                 \A i \in Valid(col) : x <= col[i].v)

SeriesMax(col) ==
    IF Valid(col) = {} THEN NaN
    ELSE Num(CHOOSE x \in { col[i].v : i \in Valid(col) } :
                 \A i \in Valid(col) : x >= col[i].v)

SeriesMean(col) ==
    IF Valid(col) = {} THEN MeanNaN
    ELSE Mean(SumSet([ i \in Valid(col) |-> col[i].v ], Valid(col)),
              Cardinality(Valid(col)))

-----------------------------------------------------------------------------
(* load_data and the preprocessing of lines 38-45.                         *)

DateColumns == { "Intake Date", "Foster Start Date", "Foster End Date" }

\* Variant: errors='coerce', which turns an unparseable cell into a date.
Unparseable_coerce(rows) == FALSE

\* pd.to_datetime raises on a cell it cannot parse; nothing catches it.
Unparseable(rows) ==
    \E i \in 1..Len(rows) : \E c \in DateColumns : rows[i][c].kind = "bad"

\* Lines 38-44 on one record row.
NormalizeRow(r) ==
    LET intake == to_datetime(r["Intake Date"])
    IN  [ c \in (DOMAIN r) \cup { "Intake Year" } |->
            IF c = "Intake Date" THEN intake
            ELSE IF c = "Foster Start Date" THEN to_datetime(r[c])
            ELSE IF c = "Foster End Date" THEN to_datetime(r[c])
            ELSE IF c = "Intake Year"
                 THEN (IF intake.isna THEN NaN ELSE Num(YearOfDays(intake.v)))
            ELSE IF c = "Zipcode" THEN AsStr(r[c])
            ELSE r[c] ]

Normalize(rows) == [ i \in 1..Len(rows) |-> NormalizeRow(rows[i]) ]

\* Line 45 on the geometry frame.
NormalizeGeo(rows) ==
    [ i \in 1..Len(rows) |->
        [ rows[i] EXCEPT !["ZCTA5CE10"] = AsStr(rows[i]["ZCTA5CE10"]) ] ]

-----------------------------------------------------------------------------
(* The metric derivations of lines 47-90, as functions of the frame.       *)

Animals(rows) == Range(Column(rows, "Animal #"))

\* Variant: the animals counted by rows.
TotalAnimals_rows(rows) == Len(rows)

\* Line 48.
TotalPeople(rows) == nunique(rows, "PID")

\* Line 49.
TotalAnimals(rows) == nunique(rows, "Animal #")

\* Line 52: value_counts of the species over one row per animal.
AnimalBreakdown(rows) == GroupSize(drop_duplicates(rows, "Animal #"), "Animal Type")

\* groupby(...).agg 'min' and 'max' of a timestamp column, skipping NaT.
StampMin(rows, c) ==
    LET col == Column(rows, c) IN
    IF Valid(col) = {} THEN NaT ELSE Stamp(SeriesMin(col).v)

StampMax(rows, c) ==
    LET col == Column(rows, c) IN
    IF Valid(col) = {} THEN NaT ELSE Stamp(SeriesMax(col).v)

\* Variant: the latest intake instead of the earliest.
CareDuration_lastIntake(rows) ==
    [ a \in Animals(rows) |->
        LET g == RowsWhere(rows, "Animal #", a)
            lo == StampMax(g, "Intake Date")
            hi == StampMax(g, "Foster End Date")
        IN  [ intake |-> lo, end |-> hi, days |-> DaysBetween(hi, lo) ] ]

\* Lines 55-59: per animal the earliest intake, the latest foster end and
\* their difference in days.
CareDuration(rows) ==
    [ a \in Animals(rows) |->
        LET g == RowsWhere(rows, "Animal #", a)
            lo == StampMin(g, "Intake Date")
            hi == StampMax(g, "Foster End Date")
        IN  [ intake |-> lo, end |-> hi, days |-> DaysBetween(hi, lo) ] ]

DaysInOurCare(cd) == [ a \in DOMAIN cd |-> cd[a].days ]

\* Variant: the open placements are dropped from the shared frame first.
WithFosterDuration_dropna(rows) ==
    LET closed == SelectSeq(rows, LAMBDA r : ~ r["Foster End Date"].isna) IN
    [ i \in 1..Len(closed) |->
        [ c \in (DOMAIN closed[i]) \cup { "Foster Duration" } |->
            IF c = "Foster Duration"
            THEN DaysBetween(closed[i]["Foster End Date"], closed[i]["Foster Start Date"])
            ELSE closed[i][c] ] ]

\* Line 65: the column added to the shared frame.
WithFosterDuration(rows) ==
    [ i \in 1..Len(rows) |->
        [ c \in (DOMAIN rows[i]) \cup { "Foster Duration" } |->
            IF c = "Foster Duration"
            THEN DaysBetween(rows[i]["Foster End Date"], rows[i]["Foster Start Date"])
            ELSE rows[i][c] ] ]

\* groupby(...).sum(): NaN cells are skipped, and a group with none left sums to 0.
GroupSum(g, c) ==
    LET col == Column(g, c) IN
    Num(SumSet([ i \in Valid(col) |-> col[i].v ], Valid(col)))

\* Line 66, on a frame that has the Foster Duration column.
FosterDuration(rows) ==
    [ a \in Animals(rows) |->
        GroupSum(RowsWhere(rows, "Animal #", a), "Foster Duration") ]

\* Variant: the flag at intake is not looked at.
AlteredAnimals_current(rows) ==
    SelectSeq(rows, LAMBDA r : r["Current Altered"] = "Yes")

\* Line 72: the rows altered while in the program.
AlteredAnimals(rows) ==
    SelectSeq(rows, LAMBDA r : r["Pre-Altered"] = "No" /\ r["Current Altered"] = "Yes")

\* Line 75: Series.map with a dictionary leaves other keys without a value.
NoLabel == [isna |-> TRUE, v |-> ""]
Label(s) == [isna |-> FALSE, v |-> s]
Procedure(gender) ==
    IF gender = "F" THEN Label("Spay")
    ELSE IF gender = "M" THEN Label("Neuter")
    ELSE NoLabel

\* Lines 72-75: one row per (Animal Type, Gender) that occurs.
SpayNeuter(rows) ==
    LET altered_unique == drop_duplicates(AlteredAnimals(rows), "Animal #")
        keys == { << altered_unique[i]["Animal Type"], altered_unique[i]["Gender"] >> :
                    i \in 1..Len(altered_unique) }
    IN  [ k \in keys |->
            [ Count |-> Len(SelectSeq(altered_unique,
                           LAMBDA r : r["Animal Type"] = k[1] /\ r["Gender"] = k[2])),
              Procedure |-> Procedure(k[2]) ] ]

\* Line 80.
all_years == << 2022, 2023, 2024, 2025 >>

\* Lines 84-86.
YearLabel(y) ==
    IF y = 2022 THEN IntToStr(y) \o "\n(Data starts July)"
    ELSE IF y = 2025 THEN IntToStr(y) \o "\n(Data ends today)"
    ELSE IntToStr(y)

\* Variant: the records of a year counted, not its animals.
YearSize_rows(rows, y) ==
    Len(SelectSeq(rows, LAMBDA r : ~ r["Intake Year"].isna /\ r["Intake Year"].v = y))

\* Line 78: groupby('Intake Year').size() over one row per animal; rows
\* without an intake year belong to no group.
YearSize(rows, y) ==
    Len(SelectSeq(drop_duplicates(rows, "Animal #"),
                  LAMBDA r : ~ r["Intake Year"].isna /\ r["Intake Year"].v = y))

\* Variant: an inner merge, which keeps the years that occur only.
AnimalYearly_inner(rows) ==
    SelectSeq([ i \in 1..Len(all_years) |->
                  [ year |-> all_years[i],
                    count |-> YearSize(rows, all_years[i]),
                    label |-> YearLabel(all_years[i]) ] ],
              LAMBDA r : r.count > 0)

\* Lines 78-86: the left merge from all_years, the zero fill and the labels.
AnimalYearly(rows) ==
    [ i \in 1..Len(all_years) |->
        [ year |-> all_years[i],
          count |-> YearSize(rows, all_years[i]),
          label |-> YearLabel(all_years[i]) ] ]

\* Variant: the records of a zip counted, not its animals.
ZipCounts_rows(rows) == GroupSize(rows, "Zipcode")

\* Line 89.
ZipCounts(rows) == GroupSize(drop_duplicates(rows, "Animal #"), "Zipcode")

\* Variant: an inner merge, which keeps the matched zones only.
MapDf_inner(geo, zc) ==
    SelectSeq([ i \in 1..Len(geo) |->
                  LET z == geo[i]["ZCTA5CE10"] IN
                  [ ZCTA5CE10 |-> z,
                    geometry |-> geo[i]["geometry"],
                    Zipcode |-> IF z \in DOMAIN zc THEN ZStr(z) ELSE ZInt(0),
                    count |-> IF z \in DOMAIN zc THEN zc[z] ELSE 0 ] ],
              LAMBDA r : r.count > 0)

\* Line 90: the left merge from the geometry frame, unmatched cells filled with 0.
MapDf(geo, zc) ==
    [ i \in 1..Len(geo) |->
        LET z == geo[i]["ZCTA5CE10"] IN
        [ ZCTA5CE10 |-> z,
          geometry |-> geo[i]["geometry"],
          Zipcode |-> IF z \in DOMAIN zc THEN ZStr(z) ELSE ZInt(0),
          count |-> IF z \in DOMAIN zc THEN zc[z] ELSE 0 ] ]

-----------------------------------------------------------------------------
(* The explored inputs.                                                    *)

Row(pid, animal, type, gender, pre, cur, intake, start, end, zip) ==
    ("PID" :> pid) @@ ("Animal #" :> animal) @@ ("Animal Type" :> type) @@
    ("Gender" :> gender) @@ ("Pre-Altered" :> pre) @@ ("Current Altered" :> cur) @@
    ("Intake Date" :> intake) @@ ("Foster Start Date" :> start) @@
    ("Foster End Date" :> end) @@ ("Zipcode" :> zip)

AnimalIds == { "A1", "A2" }

\* The record of one placement: a dog taken in and placed on 2023-01-01,
\* returned on 2023-01-10, neutered while in the program.
Placement(a) ==
    Row("P1", a, "Dog", "M", "No", "Yes",
        RawDate(2023, 1, 1), RawDate(2023, 1, 1), RawDate(2023, 1, 10), ZInt(14201))

\* Records that differ from it in one respect each.  In all the records
\* explored every cell but a date cell holds a value.
MixedRecords ==
    UNION { LET p == Placement(a) IN
            { p,
              [ p EXCEPT !["PID"] = "P2" ],
              [ p EXCEPT !["Animal Type"] = "Cat", !["Gender"] = "F" ],
              [ p EXCEPT !["Pre-Altered"] = "Yes" ],
              [ p EXCEPT !["Intake Date"] = RawDate(2022, 1, 1) ],
              [ p EXCEPT !["Foster Start Date"] = RawDate(2023, 1, 5) ],
              [ p EXCEPT !["Foster End Date"] = RawNull ],
              [ p EXCEPT !["Zipcode"] = ZInt(1001) ],
              [ p EXCEPT !["Zipcode"] = ZStr("01001") ] } : a \in AnimalIds }

\* Records that differ in the intake date: in and around the 2022-2025 window.
YearRecords ==
    { [ Placement(a) EXCEPT !["Intake Date"] = d ] :
        a \in AnimalIds,
        d \in { RawDate(2021, 12, 31), RawDate(2022, 1, 1), RawDate(2023, 1, 1),
                RawDate(2025, 12, 31), RawDate(2026, 1, 1) } }

\* Records that differ in the intake date and in the end of the placement,
\* which may be open, or entered earlier than the intake.
DateRecords ==
    { [ Placement(a) EXCEPT !["Intake Date"] = d, !["Foster End Date"] = e ] :
        a \in AnimalIds,
        d \in { RawDate(2022, 1, 1), RawDate(2023, 1, 1), RawDate(2025, 12, 31) },
        e \in { RawNull, RawDate(2022, 6, 1), RawDate(2023, 1, 10) } }

\* Records that differ in species, gender and the altered flags.
ClassRecords ==
    { [ Placement(a) EXCEPT !["Animal Type"] = k[1], !["Gender"] = k[2],
                            !["Pre-Altered"] = x, !["Current Altered"] = y ] :
        a \in AnimalIds,
        k \in { << "Dog", "M" >>, << "Dog", "F" >>, << "Cat", "U" >> },
        x \in { "Yes", "No" }, y \in { "Yes", "No" } }

\* Records that differ in the zip cell: a number, a number that a text zip
\* with a leading zero would have been, and that text.
ZipRecords ==
    { [ Placement(a) EXCEPT !["Zipcode"] = z ] :
        a \in AnimalIds, z \in { ZInt(14201), ZInt(1001), ZStr("01001") } }

\* Records whose intake date may be text that is no date.
LoadRecords ==
    { [ Placement(a) EXCEPT !["Intake Date"] = d ] :
        a \in AnimalIds, d \in { RawDate(2023, 1, 1), RawBad } }

\* Records with an open placement, another species or another zip.
OrderRecords ==
    UNION { LET p == Placement(a) IN
            { p,
              [ p EXCEPT !["Foster End Date"] = RawNull ],
              [ p EXCEPT !["Animal Type"] = "Cat", !["Gender"] = "F" ],
              [ p EXCEPT !["Zipcode"] = ZStr("01001") ] } : a \in AnimalIds }

SeqsUpTo(S, n) == UNION { [ 1..k -> S ] : k \in 0..n }

GeoRow(z) == [ ZCTA5CE10 |-> z, geometry |-> "polygon" ]

\* Zones of the geometry file; the zip identifier is text, or a number.
Zones == { GeoRow(ZStr("14201")), GeoRow(ZStr("01001")), GeoRow(ZInt(14201)) }

\* A geometry file holds at least one zone: one without features has no
\* ZCTA5CE10 column at all.
GeoTables == SeqsUpTo(Zones, MaxZones) \ { << >> }

\* A geometry file of two zones, for the runs that vary the records only.
ErieZips == { << GeoRow(ZStr("14201")), GeoRow(ZStr("01001")) >> }

-----------------------------------------------------------------------------
(* The run.                                                                *)

Order == << "key_metrics", "animal_breakdown", "care_duration", "foster_duration",
            "spay_neuter", "animal_yearly", "map_df" >>

Derivations == Range(Order)

Before(a) == { Order[i] : i \in { j \in 1..Len(Order) : \E k \in (j+1)..Len(Order) : Order[k] = a } }

m_key == << total_people, total_animals >>
m_breakdown == << animal_breakdown >>
m_care == << care_duration, avg_days_our_care, min_days_our_care, max_days_our_care >>
m_foster == << foster_duration, avg_days_foster, min_days_foster, max_days_foster >>
m_spay == << spay_neuter >>
m_yearly == << animal_yearly >>
m_zip == << zip_counts, map_df >>

\* Before the script runs nothing is loaded and no metric name is bound; the
\* variables of unbound names hold a filler that `done` tells apart.
Unbound ==
    /\ pc = "start"
    /\ df = None /\ geo_df = None
    /\ errors = << >>
    /\ done = {}
    /\ total_people = 0 /\ total_animals = 0
    /\ animal_breakdown = << >>
    /\ care_duration = << >>
    /\ avg_days_our_care = MeanNaN /\ min_days_our_care = NaN /\ max_days_our_care = NaN
    /\ foster_duration = << >>
    /\ avg_days_foster = MeanNaN /\ min_days_foster = NaN /\ max_days_foster = NaN
    /\ spay_neuter = << >>
    /\ animal_yearly = << >>
    /\ zip_counts = << >> /\ map_df = << >>
    /\ rendered = FALSE

\* The files of a run: each is absent, or holds one of the given tables.
InitOf(R, G) ==
    /\ files \in [ xlsx : { Missing } \cup { File(t) : t \in SeqsUpTo(R, MaxRows) },
                   geojson : { Missing } \cup { File(g) : g \in G } ]
    /\ Unbound

Init == InitOf(MixedRecords, ErieZips)

\* Lines 22-34: either read raises, load_data reports it and returns None, None.
LoadData ==
    /\ pc = "start"
    /\ pc' = "loaded"
    /\ IF files.xlsx.present /\ files.geojson.present
       THEN /\ df' = Frame(files.xlsx.rows)
            /\ geo_df' = Frame(files.geojson.rows)
            /\ errors' = errors
       ELSE /\ df' = None
            /\ geo_df' = None
            /\ errors' = Append(errors, "Error loading data")
    /\ UNCHANGED << files, done, metrics, rendered >>

\* Lines 36-45.  An unparseable date cell raises out of the script.
Preprocess ==
    /\ pc = "loaded"
    /\ ~ df.none /\ ~ geo_df.none
    /\ IF Unparseable(df.rows)
       THEN /\ pc' = "raised"
            /\ UNCHANGED << df, geo_df >>
       ELSE /\ pc' = "metrics"
            /\ df' = Frame(Normalize(df.rows))
            /\ geo_df' = Frame(NormalizeGeo(geo_df.rows))
    /\ UNCHANGED << files, errors, done, metrics, rendered >>

\* Lines 178-179.
LoadFailure ==
    /\ pc = "loaded"
    /\ df.none \/ geo_df.none
    /\ pc' = "end"
    /\ errors' = Append(errors, "Unable to load data")
    /\ UNCHANGED << files, df, geo_df, done, metrics, rendered >>

\* One metric derivation a takes its turn: in the order of the source, or,
\* when free, at any time after the preprocessing.
Derive(a, free) ==
    /\ pc = "metrics"
    /\ a \notin done
    /\ free \/ done = Before(a)
    /\ done' = done \cup { a }
    /\ UNCHANGED << files, pc, geo_df, errors, rendered >>

\* Lines 48-49.
KeyMetrics(free) ==
    /\ Derive("key_metrics", free)
    /\ total_people' = TotalPeople(df.rows)
    /\ total_animals' = TotalAnimals(df.rows)
    /\ UNCHANGED << df, m_breakdown, m_care, m_foster, m_spay, m_yearly, m_zip >>

\* Line 52.
Breakdown(free) ==
    /\ Derive("animal_breakdown", free)
    /\ animal_breakdown' = AnimalBreakdown(df.rows)
    /\ UNCHANGED << df, m_key, m_care, m_foster, m_spay, m_yearly, m_zip >>

\* Lines 55-62.
CareStep(free) ==
    /\ Derive("care_duration", free)
    /\ care_duration' = CareDuration(df.rows)
    /\ avg_days_our_care' = SeriesMean(DaysInOurCare(care_duration'))
    /\ min_days_our_care' = SeriesMin(DaysInOurCare(care_duration'))
    /\ max_days_our_care' = SeriesMax(DaysInOurCare(care_duration'))
    /\ UNCHANGED << df, m_key, m_breakdown, m_foster, m_spay, m_yearly, m_zip >>

\* Lines 65-69: the only derivation that writes to the shared frame.
FosterStep(free) ==
    /\ Derive("foster_duration", free)
    /\ df' = Frame(WithFosterDuration(df.rows))
    /\ foster_duration' = FosterDuration(df'.rows)
    /\ avg_days_foster' = SeriesMean(foster_duration')
    /\ min_days_foster' = SeriesMin(foster_duration')
    /\ max_days_foster' = SeriesMax(foster_duration')
    /\ UNCHANGED << m_key, m_breakdown, m_care, m_spay, m_yearly, m_zip >>

\* Lines 72-75.
SpayNeuterStep(free) ==
    /\ Derive("spay_neuter", free)
    /\ spay_neuter' = SpayNeuter(df.rows)
    /\ UNCHANGED << df, m_key, m_breakdown, m_care, m_foster, m_yearly, m_zip >>

\* Lines 78-86.
YearlyStep(free) ==
    /\ Derive("animal_yearly", free)
    /\ animal_yearly' = AnimalYearly(df.rows)
    /\ UNCHANGED << df, m_key, m_breakdown, m_care, m_foster, m_spay, m_zip >>

\* Lines 89-90.
MapStep(free) ==
    /\ Derive("map_df", free)
    /\ zip_counts' = ZipCounts(df.rows)
    /\ map_df' = MapDf(geo_df.rows, zip_counts')
    /\ UNCHANGED << df, m_key, m_breakdown, m_care, m_foster, m_spay, m_yearly >>

\* Lines 92-177: the page is drawn from the derived values.
Render ==
    /\ pc = "metrics"
    /\ done = Derivations
    /\ pc' = "end"
    /\ rendered' = TRUE
    /\ UNCHANGED << files, df, geo_df, errors, done, metrics >>

Next ==
    \/ LoadData
    \/ Preprocess
    \/ LoadFailure
    \/ KeyMetrics(FALSE)
    \/ Breakdown(FALSE)
    \/ CareStep(FALSE)
    \/ FosterStep(FALSE)
    \/ SpayNeuterStep(FALSE)
    \/ YearlyStep(FALSE)
    \/ MapStep(FALSE)
    \/ Render

Spec == Init /\ [][Next]_vars

SpecYears == InitOf(YearRecords, ErieZips) /\ [][Next]_vars

SpecDates == InitOf(DateRecords, ErieZips) /\ [][Next]_vars

SpecClass == InitOf(ClassRecords, ErieZips) /\ [][Next]_vars

SpecZip == InitOf(ZipRecords, GeoTables) /\ [][Next]_vars

SpecLoad == InitOf(LoadRecords, GeoTables) /\ [][Next]_vars

\* The same run with the metric derivations taken in any order.
NextAnyOrder ==
    \/ LoadData
    \/ Preprocess
    \/ LoadFailure
    \/ KeyMetrics(TRUE)
    \/ Breakdown(TRUE)
    \/ CareStep(TRUE)
    \/ FosterStep(TRUE)
    \/ SpayNeuterStep(TRUE)
    \/ YearlyStep(TRUE)
    \/ MapStep(TRUE)
    \/ Render

SpecAnyOrder == InitOf(OrderRecords, ErieZips) /\ [][NextAnyOrder]_vars

-----------------------------------------------------------------------------
(* Lines 38-90 in the order of the source, as one function of the two      *)
(* tables read.                                                            *)

Pipeline(records, zones) ==
    LET frame == Normalize(records)
        geo == NormalizeGeo(zones)
        care == DaysInOurCare(CareDuration(frame))
        withFoster == WithFosterDuration(frame)
        foster == FosterDuration(withFoster)
    IN  [ total_people |-> TotalPeople(frame),
          total_animals |-> TotalAnimals(frame),
          animal_breakdown |-> AnimalBreakdown(frame),
          care_stats |-> << SeriesMean(care), SeriesMin(care), SeriesMax(care) >>,
          foster_duration |-> foster,
          foster_stats |-> << SeriesMean(foster), SeriesMin(foster), SeriesMax(foster) >>,
          spay_neuter |-> SpayNeuter(withFoster),
          animal_yearly |-> AnimalYearly(withFoster),
          map_df |-> MapDf(geo, ZipCounts(withFoster)) ]

-----------------------------------------------------------------------------
(* Vocabulary of the properties.                                           *)

\* What the run derived, by the names of Pipeline.
Derived ==
    [ total_people |-> total_people,
      total_animals |-> total_animals,
      animal_breakdown |-> animal_breakdown,
      care_stats |-> << avg_days_our_care, min_days_our_care, max_days_our_care >>,
      foster_duration |-> foster_duration,
      foster_stats |-> << avg_days_foster, min_days_foster, max_days_foster >>,
      spay_neuter |-> spay_neuter,
      animal_yearly |-> animal_yearly,
      map_df |-> map_df ]

\* The record table and the geometry table of the run, as read.
RecordTable == files.xlsx.rows
GeometryTable == files.geojson.rows

\* The index of the first record of animal a, its representative record.
FirstIndex(rows, a) ==
    CHOOSE i \in 1..Len(rows) :
        /\ rows[i]["Animal #"] = a
        /\ \A j \in 1..(i - 1) : rows[j]["Animal #"] # a

Representative(rows, a) == rows[FirstIndex(rows, a)]

RecordsOfAnimal(rows, a) == { i \in 1..Len(rows) : rows[i]["Animal #"] = a }

RECURSIVE SumCounts(_)
SumCounts(rows) ==
    IF rows = << >> THEN 0 ELSE Head(rows).count + SumCounts(Tail(rows))

\* Every record twice: the table followed by itself, or every row followed
\* by its copy.
Twice(rows) == rows \o rows
Paired(rows) == [ i \in 1..(2 * Len(rows)) |-> rows[(i + 1) \div 2] ]

\* date cell x is a date earlier than date cell y
Earlier(x, y) ==
    \/ x.y < y.y
    \/ x.y = y.y /\ x.m < y.m
    \/ x.y = y.y /\ x.m = y.m /\ x.d < y.d

-----------------------------------------------------------------------------
(* C1: duplicating every record.                                           *)

Duplications == { Twice(RecordTable), Paired(RecordTable) }

\* The outputs that count animals, people or take extremes.
PerAnimalOutputs ==
    { "total_people", "total_animals", "animal_breakdown", "care_stats",
      "spay_neuter", "animal_yearly", "map_df" }

\* C1 as claimed: a run on the record table with every record appearing twice
\* yields exactly the outputs of the run on the table itself, the foster
\* duration statistics included.
C1_DuplicationChangesNothing ==
    rendered =>
        \A d \in Duplications :
            LET out == Pipeline(d, GeometryTable) IN
            /\ \A f \in PerAnimalOutputs : out[f] = Derived[f]
            /\ out.foster_stats = Derived.foster_stats

\* C1 as amended: duplicating every record leaves totalPeople, totalAnimals,
\* animalTypeBreakdown, careDurationStats, spayNeuterTable, yearlyIntake and
\* zipAggregate unchanged, and doubles every animal's summed foster duration,
\* and with it the mean, the minimum and the maximum of these sums.
C1_DuplicationDoublesFosterOnly ==
    rendered =>
        \A d \in Duplications :
            LET out == Pipeline(d, GeometryTable) IN
            /\ \A f \in PerAnimalOutputs : out[f] = Derived[f]
            /\ DOMAIN out.foster_duration = DOMAIN foster_duration
            /\ \A a \in DOMAIN foster_duration :
                   out.foster_duration[a] = Num(2 * foster_duration[a].v)
            /\ out.foster_stats[1].isna = avg_days_foster.isna
            /\ out.foster_stats[1].sum = 2 * avg_days_foster.sum
            /\ out.foster_stats[1].n = avg_days_foster.n
            /\ out.foster_stats[2].isna = min_days_foster.isna
            /\ out.foster_stats[2].v = 2 * min_days_foster.v
            /\ out.foster_stats[3].isna = max_days_foster.isna
            /\ out.foster_stats[3].v = 2 * max_days_foster.v

\* A finished run over two records of one animal, placed for 18 days in all.
C1_Witness ==
    /\ rendered
    /\ Len(RecordTable) = 2
    /\ total_animals = 1
    /\ max_days_foster = Num(18)

-----------------------------------------------------------------------------
(* C2: the map's counts against the number of animals.                     *)

ZoneIds == { geo_df.rows[i]["ZCTA5CE10"] : i \in 1..Len(geo_df.rows) }

\* every animal's representative zip is the zip of some zone
EveryAnimalMatched ==
    \A a \in Animals(df.rows) : Representative(df.rows, a)["Zipcode"] \in ZoneIds

SumBoundedWithEquality ==
    /\ SumCounts(map_df) <= total_animals
    /\ (SumCounts(map_df) = total_animals) <=> EveryAnimalMatched

\* C2 as claimed: for every record table and geometry table the counts of
\* the zip aggregate sum to at most totalAnimals, and to exactly totalAnimals
\* iff every animal's representative zip is the zip of some zone.
C2_MapSumAtMostAnimals ==
    { "key_metrics", "map_df" } \subseteq done => SumBoundedWithEquality

DistinctZoneIds == Cardinality(ZoneIds) = Len(geo_df.rows)

\* C2 as amended: the same, for geometry tables whose zones have pairwise
\* different zip identifiers (as text).
C2_MapSumAtMostAnimalsDistinctZones ==
    ({ "key_metrics", "map_df" } \subseteq done /\ DistinctZoneIds)
        => SumBoundedWithEquality

\* Two different zones and two animals, of which the map counts one.
C2_Witness ==
    /\ { "key_metrics", "map_df" } \subseteq done
    /\ DistinctZoneIds /\ Len(geo_df.rows) = 2
    /\ total_animals = 2
    /\ SumCounts(map_df) = 1

-----------------------------------------------------------------------------
(* C3, C4: the yearly intake.                                              *)

\* The year written in the intake date cell of animal a's first record.
IntakeYearOf(a) == Representative(RecordTable, a)["Intake Date"].y

AnimalsOfYear(y) == { a \in Animals(RecordTable) : IntakeYearOf(a) = y }

\* C3: every year's bucket counts exactly the animals whose first record has
\* its intake in that year, so animals taken in outside 2022..2025 add to no
\* bucket, and when every animal was taken in within 2022..2025 the four
\* counts sum to totalAnimals.
C3_YearBucketsCountAnimals ==
    { "key_metrics", "animal_yearly" } \subseteq done =>
        /\ \A i \in 1..Len(animal_yearly) :
               animal_yearly[i].count = Cardinality(AnimalsOfYear(animal_yearly[i].year))
        /\ SumCounts(animal_yearly) =
               Cardinality({ a \in Animals(RecordTable) : IntakeYearOf(a) \in 2022..2025 })
        /\ (\A a \in Animals(RecordTable) : IntakeYearOf(a) \in 2022..2025)
               => SumCounts(animal_yearly) = total_animals

\* Two animals, one taken in inside the window and one outside of it.
C3_Witness ==
    /\ { "key_metrics", "animal_yearly" } \subseteq done
    /\ total_animals = 2
    /\ SumCounts(animal_yearly) = 1
    /\ \E a \in Animals(RecordTable) : IntakeYearOf(a) = 2026

\* C4: whatever the record table, yearlyIntake has exactly the four rows of
\* 2022, 2023, 2024, 2025 in this order, each with a count that is a natural
\* number and is 0 when no animal was taken in that year; the labels of 2022
\* and 2025 alone carry a note, and the counts are those of the plain years.
C4_FourYearRows ==
    "animal_yearly" \in done =>
        /\ Len(animal_yearly) = 4
        /\ [ i \in 1..4 |-> animal_yearly[i].year ] = << 2022, 2023, 2024, 2025 >>
        /\ \A i \in 1..4 :
               /\ animal_yearly[i].count \in Nat
               /\ AnimalsOfYear(animal_yearly[i].year) = {} => animal_yearly[i].count = 0
               /\ animal_yearly[i].count = Cardinality(AnimalsOfYear(all_years[i]))
        /\ [ i \in 1..4 |-> animal_yearly[i].label ] =
               << "2022\n(Data starts July)", "2023", "2024", "2025\n(Data ends today)" >>

\* The yearly intake of an empty record table.
C4_Witness ==
    /\ "animal_yearly" \in done
    /\ RecordTable = << >>
    /\ Len(animal_yearly) = 4

-----------------------------------------------------------------------------
(* C5, C6: the durations.                                                  *)

HasEnd(i) == RecordTable[i]["Foster End Date"].kind = "date"

AnimalsWithEnd ==
    { a \in Animals(RecordTable) : \E i \in RecordsOfAnimal(RecordTable, a) : HasEnd(i) }

\* C5 as claimed: every animal with at least one record that has a foster
\* end date has a care duration of 0 days or more.
C5_CareDurationNotNegative ==
    "care_duration" \in done =>
        \A a \in AnimalsWithEnd :
            /\ ~ care_duration[a].days.isna
            /\ care_duration[a].days.v >= 0

\* a record whose foster end date is not earlier than its own intake date
EndsAfterIntake(i) ==
    /\ HasEnd(i)
    /\ ~ Earlier(RecordTable[i]["Foster End Date"], RecordTable[i]["Intake Date"])

\* C5 as amended: every animal with at least one record whose foster end
\* date is not earlier than that record's intake date has a care duration of
\* 0 days or more.
C5_CareDurationNotNegativeWhenEndFollowsIntake ==
    "care_duration" \in done =>
        \A a \in Animals(RecordTable) :
            (\E i \in RecordsOfAnimal(RecordTable, a) : EndsAfterIntake(i)) =>
                /\ ~ care_duration[a].days.isna
                /\ care_duration[a].days.v >= 0

\* An animal with two records: one ends after its intake, the later intake
\* of the other has no end yet.
C5_Witness ==
    /\ "care_duration" \in done
    /\ Len(RecordTable) = 2
    /\ RecordTable[1]["Animal #"] = RecordTable[2]["Animal #"]
    /\ EndsAfterIntake(1)
    /\ ~ HasEnd(2)
    /\ Earlier(RecordTable[1]["Foster End Date"], RecordTable[2]["Intake Date"])

AnimalsWithoutEnd == Animals(RecordTable) \ AnimalsWithEnd

\* the statistics of the values of the animals in S
StatsOver(f, S) ==
    LET g == [ a \in S |-> f[a] ] IN << SeriesMean(g), SeriesMin(g), SeriesMax(g) >>

\* C6: an animal all of whose records lack a foster end date has no care
\* duration and no foster duration total (no value, not 0), and the mean, the
\* minimum and the maximum of both are those of the other animals.
C6_OpenPlacementsHaveNoDuration ==
    { "care_duration", "foster_duration" } \subseteq done =>
        /\ \A a \in AnimalsWithoutEnd :
               /\ care_duration[a].days.isna
               /\ foster_duration[a].isna
        /\ << avg_days_our_care, min_days_our_care, max_days_our_care >> =
               StatsOver(DaysInOurCare(care_duration), AnimalsWithEnd)
        /\ << avg_days_foster, min_days_foster, max_days_foster >> =
               StatsOver(foster_duration, AnimalsWithEnd)

-----------------------------------------------------------------------------
(* C7: the spay/neuter table.                                              *)

IsAlteredInCare(r) == r["Pre-Altered"] = "No" /\ r["Current Altered"] = "Yes"

\* The table in which every animal of S is counted once, under the species
\* and gender of the record rec(a).
CountedOnce(S, rec(_)) ==
    LET key(a) == << rec(a)["Animal Type"], rec(a)["Gender"] >> IN
    [ k \in { key(a) : a \in S } |->
        [ Count |-> Cardinality({ a \in S : key(a) = k }),
          Procedure |-> IF k[2] = "F" THEN Label("Spay")
                        ELSE IF k[2] = "M" THEN Label("Neuter")
                        ELSE NoLabel ] ]

FirstRecord(a) == Representative(RecordTable, a)

\* C7 as claimed: the animals counted are those whose first record has
\* Pre-Altered 'No' and Current Altered 'Yes', each once under the species and
\* gender of that record, F labelled Spay, M Neuter, any other gender without
\* a label; an animal whose first record is pre-altered is never counted.
C7_CountedByFirstRecord ==
    "spay_neuter" \in done =>
        spay_neuter =
            CountedOnce({ a \in Animals(RecordTable) : IsAlteredInCare(FirstRecord(a)) },
                        FirstRecord)

AlteredRecords(a) ==
    SelectSeq(RecordTable, LAMBDA r : r["Animal #"] = a /\ IsAlteredInCare(r))

FirstAlteredRecord(a) == Head(AlteredRecords(a))

\* C7 as amended: the animals counted are those with at least one record
\* that has Pre-Altered 'No' and Current Altered 'Yes', each once under the
\* species and gender of the first such record, F labelled Spay, M Neuter,
\* any other gender without a label; an animal all of whose records are
\* pre-altered is never counted.
C7_CountedByFirstAlteredRecord ==
    "spay_neuter" \in done =>
        spay_neuter =
            CountedOnce({ a \in Animals(RecordTable) : AlteredRecords(a) # << >> },
                        FirstAlteredRecord)

\* An animal whose first record is pre-altered and whose second record, of
\* another gender, is altered in care.
C7_Witness ==
    /\ "spay_neuter" \in done
    /\ Len(RecordTable) = 2
    /\ RecordTable[1]["Animal #"] = RecordTable[2]["Animal #"]
    /\ RecordTable[1]["Pre-Altered"] = "Yes"
    /\ IsAlteredInCare(RecordTable[2])
    /\ RecordTable[1]["Gender"] # RecordTable[2]["Gender"]
    /\ RecordTable[2]["Gender"] = "U"

-----------------------------------------------------------------------------
(* C8: the zip aggregate.                                                  *)

AnimalsOfZip(z) ==
    { a \in Animals(df.rows) : Representative(df.rows, a)["Zipcode"] = z }

\* C8: the zip aggregate has one row per row of the geometry table, in its
\* order; the row of a zone counts the animals whose representative zip is the
\* zone's, 0 if there is none; animals of other zips add no row and raise
\* nothing.
C8_OneRowPerZone ==
    "map_df" \in done =>
        /\ Len(map_df) = Len(GeometryTable)
        /\ \A i \in 1..Len(map_df) :
               /\ map_df[i].ZCTA5CE10 = AsStr(GeometryTable[i].ZCTA5CE10)
               /\ map_df[i].geometry = GeometryTable[i].geometry
               /\ map_df[i].count = Cardinality(AnimalsOfZip(map_df[i].ZCTA5CE10))
        /\ pc # "raised"

\* Two zones, one with an animal and one without, and an animal of no zone.
C8_Witness ==
    /\ "map_df" \in done
    /\ Len(map_df) = 2
    /\ map_df[1].count = 0
    /\ map_df[2].count = 1
    /\ \E a \in Animals(df.rows) : AnimalsOfZip(Representative(df.rows, a)["Zipcode"]) # {}
                                   /\ Representative(df.rows, a)["Zipcode"] \notin ZoneIds

-----------------------------------------------------------------------------
(* C9: failures and outputs.                                               *)

Absent == ~ files.xlsx.present \/ ~ files.geojson.present

HasBadDate ==
    /\ files.xlsx.present
    /\ \E i \in 1..Len(RecordTable) :
           \/ RecordTable[i]["Intake Date"].kind = "bad"
           \/ RecordTable[i]["Foster Start Date"].kind = "bad"
           \/ RecordTable[i]["Foster End Date"].kind = "bad"

IsEmpty ==
    \/ files.xlsx.present /\ RecordTable = << >>
    \/ files.geojson.present /\ GeometryTable = << >>

NoOutput == done = {} /\ ~ rendered

Failed == pc = "raised" \/ errors # << >>

Ended == pc \in { "end", "raised" }

-----------------------------------------------------------------------------
(* C10: the order of the derivations.                                      *)

\* What derivation a contributes to the outputs o.
OutputOf(a, o) ==
    IF a = "key_metrics" THEN << o.total_people, o.total_animals >>
    ELSE IF a = "animal_breakdown" THEN << o.animal_breakdown >>
    ELSE IF a = "care_duration" THEN << o.care_stats >>
    ELSE IF a = "foster_duration" THEN << o.foster_duration, o.foster_stats >>
    ELSE IF a = "spay_neuter" THEN << o.spay_neuter >>
    ELSE IF a = "animal_yearly" THEN << o.animal_yearly >>
    ELSE << o.map_df >>

\* The shared frame without the columns added after the preprocessing.
Preprocessed(rows) ==
    [ i \in 1..Len(rows) |->
        [ c \in (DOMAIN RecordTable[i]) \cup { "Intake Year" } |-> rows[i][c] ] ]

\* C10: taken in any order, no derivation changes what the preprocessing left
\* in the columns the derivations read, and each derives what it derives in
\* the order of the source.
C10_AnyOrderSameOutputs ==
    /\ (pc = "metrics" \/ rendered) =>
           /\ Len(df.rows) = Len(RecordTable)
           /\ Preprocessed(df.rows) = Normalize(RecordTable)
    /\ done # {} =>
           LET inOrder == Pipeline(RecordTable, GeometryTable) IN
           \A a \in done : OutputOf(a, Derived) = OutputOf(a, inOrder)

\* The foster durations and the map were derived before the key metrics and
\* the care durations, over two records one of which is an open placement.
C10_Witness ==
    /\ pc = "metrics"
    /\ { "foster_duration", "map_df" } \subseteq done
    /\ done \cap { "key_metrics", "care_duration" } = {}
    /\ Len(RecordTable) = 2
    /\ \E i \in 1..2 : ~ HasEnd(i)

====
